---------------------------- MODULE Spec2Model ----------------------------
(***************************************************************************)
(* The session layer of ncclient (sairon fork): Session, Rfc4742Session    *)
(* (ncclient/transport/session.py) and the StdIOSession worker loop        *)
(* (ncclient/transport/stdio.py).                                          *)
(*                                                                         *)
(* A byte is a one-character string, a byte string a sequence of bytes.    *)
(* The frame parsers are pure operators that follow the source loop by     *)
(* loop; the actions are the worker's read path, the listener registry     *)
(* operations and send.                                                    *)
(***************************************************************************)
EXTENDS Naturals, Integers, Sequences, FiniteSets, TLC

VARIABLES
    \* Session.__init__
    listeners,              \* self._listeners
    lock,                   \* self._lock: "free" or the thread holding it
    q,                      \* self._q
    client_capabilities,    \* self._client_capabilities
    server_capabilities,    \* self._server_capabilities (None until hello)
    id,                     \* self._id
    connected,              \* self._connected
    \* Rfc4742Session.__init__
    buffer,                 \* self._buffer: a StringIO, [data, pos]
    parsing_state10,        \* self._parsing_state10
    parsing_state,          \* self._parsing_state (created by _parse10's last lines)
    parsing_pos10,          \* self._parsing_pos10
    parsing_pos11,          \* self._parsing_pos11
    parsing_state11,        \* self._parsing_state11
    expchunksize,           \* self._expchunksize
    curchunksize,           \* self._curchunksize
    inendpos,               \* self._inendpos
    message,                \* self._message
    \* the peer and the channel
    wire,                   \* bytes the peer has written and the worker has not read
    fed,                    \* number of bytes the worker has read so far
    reads,                  \* number of reads that returned data, counted up to ReadsCounted
    sent,                   \* the peer's messages, as it framed them
    running,                \* the worker loop is still in its while True
    \* what the listeners saw
    dispatched,             \* every raw text handed to _dispatch_message, in order
    received,               \* per listener: the raw texts its callback got
    errors,                 \* per listener: the errors its errback got
    \* the two threads of the registry protocol
    app,                    \* application thread: [pc, op, arg, result]
    wrk,                    \* worker thread inside a dispatch:
                            \* [pc, kind, text, snapshot, todo, invoked, warned, result]
    gone,                   \* listeners whose remove_listener has returned (and not added since)
    at_snapshot,            \* [registry, gone] at the instant of the latest snapshot
    send_result,            \* the latest send(): [outcome, arg, seq], seq flips at each call
    \* _post_connect and the rest of the worker loop
    post_connect,           \* the frame of _post_connect: [pc, init_event, error]
    peer_closed,            \* the peer has closed its end of the channel
    written,                \* what the worker wrote to the process's stdin, in order
    last_read               \* the parser the latest read ran: [parser, client, server]

vars == << listeners, lock, q, client_capabilities, server_capabilities, id, connected,
           buffer, parsing_state10, parsing_state, parsing_pos10, parsing_pos11,
           parsing_state11, expchunksize, curchunksize, inendpos, message,
           wire, fed, reads, sent, running, dispatched, received, errors,
           app, wrk, gone, at_snapshot, send_result,
           post_connect, peer_closed, written, last_read >>

\* the variables of the handshake and of the write path
hs_vars == << post_connect, peer_closed, written, last_read >>

None == "None"

\* None where a Capabilities object (a set of URIs) is expected
NoCapabilities == {None}

\* an attribute that has not been assigned yet, where a number is expected
Unset == 0 - 1

----------------------------------------------------------------------------
(* Byte strings *)

RECURSIVE Concat(_)
Concat(ss) == IF ss = <<>> THEN <<>> ELSE Head(ss) \o Concat(Tail(ss))

\* s[i], s[i+1], ... to the end (a Python slice s[i-1:])
From(s, i) == IF i > Len(s) THEN <<>> ELSE SubSeq(s, i, Len(s))

\* the first n bytes (a Python slice s[:n])
Upto(s, n) == IF n <= 0 THEN <<>> ELSE SubSeq(s, 1, IF n > Len(s) THEN Len(s) ELSE n)

\* str.strip(): whitespace removed at both ends
Whitespace == {" ", "\n", "\t", "\r"}

RECURSIVE lstrip(_)
lstrip(s) == IF s # <<>> /\ Head(s) \in Whitespace THEN lstrip(Tail(s)) ELSE s

RECURSIVE rstrip(_)
rstrip(s) ==
    IF s # <<>> /\ s[Len(s)] \in Whitespace THEN rstrip(SubSeq(s, 1, Len(s) - 1)) ELSE s

strip(s) == rstrip(lstrip(s))

----------------------------------------------------------------------------
(* StringIO: a byte string and a position.  read moves the position, write *)
(* overwrites from the position on and extends the string when it runs     *)
(* past the end.                                                           *)

StringIO == [data |-> <<>>, pos |-> 0]

tell(buf) == buf.pos

seek(buf, p) == [buf EXCEPT !.pos = IF p < 0 THEN 0 ELSE p]

\* read(1) returns '' at or past the end
eof(buf) == buf.pos >= Len(buf.data)

peek(buf) == buf.data[buf.pos + 1]

advance(buf) == [buf EXCEPT !.pos = @ + 1]

\* read(): everything from the position on
readrest(buf) == From(buf.data, buf.pos + 1)

NUL == "\\0"

write(buf, s) ==
    LET pad  == [i \in 1..(buf.pos - Len(buf.data)) |-> NUL]
        kept == Upto(buf.data, buf.pos) \o pad
    IN [data |-> kept \o s \o From(buf.data, buf.pos + Len(s) + 1),
        pos  |-> buf.pos + Len(s)]

----------------------------------------------------------------------------
(* Rfc4742Session._parse10 *)

MSG_DELIM == <<"]", "]", ">", "]", "]", ">">>

END_DELIM == <<"\n", "#", "#", "\n">>

\* n = len(delim) - 1
n10 == Len(MSG_DELIM) - 1

\* The else of the inner for: msg_till = buf.tell() - n; the text before it is
\* dispatched stripped; n + 1 bytes are skipped; the rest becomes the new buffer.
found10(s) ==
    LET msg_till == tell(s.buf) - n10
        raw      == strip(Upto(s.buf.data, msg_till))
        rest     == From(s.buf.data, msg_till + n10 + 1 + 1)
    IN [buf |-> [data |-> rest, pos |-> 0], expect |-> 0, out |-> Append(s.out, raw)]

RECURSIVE outer10(_), inner10(_, _)
\* while True: x = buf.read(1) ...
outer10(s) ==
    IF eof(s.buf) THEN s
    ELSE IF peek(s.buf) = MSG_DELIM[s.expect + 1]
         THEN inner10([s EXCEPT !.buf = advance(@), !.expect = @ + 1], s.expect + 1)
         ELSE outer10([s EXCEPT !.buf = advance(@), !.expect = 0])

\* for i in range(expect, n): ... else: (full delim)
inner10(s, i) ==
    IF i >= n10 THEN outer10(found10(s))
    ELSE IF eof(s.buf) THEN outer10(s)
    ELSE IF peek(s.buf) = MSG_DELIM[s.expect + 1]
         THEN inner10([s EXCEPT !.buf = advance(@), !.expect = @ + 1], i + 1)
         ELSE outer10([s EXCEPT !.buf = advance(@), !.expect = 0])

\* self is [buffer, parsing_state10, parsing_pos10]; the result carries the
\* fields _parse10 assigns and out, the texts it handed to _dispatch_message.
_parse10(self) ==
    LET s == outer10([buf    |-> seek(self.buffer, self.parsing_pos10),
                      expect |-> self.parsing_state10,
                      out    |-> <<>>])
    IN [buffer        |-> s.buf,
        parsing_state |-> s.expect,
        parsing_pos10 |-> tell(s.buf),
        out           |-> s.out,
        raised        |-> FALSE]

----------------------------------------------------------------------------
(* Rfc4742Session._parse11 *)

\* idle, instart, inmsg, inbetween, inend = range(5)
idle == 0
instart == 1
inmsg == 2
inbetween == 3
inend == 4

MAX_STARTCHUNK_SIZE == 10

DigitChars == <<"0", "1", "2", "3", "4", "5", "6", "7", "8", "9">>

\* str.isdigit() of one byte
isdigit(x) == \E i \in 1..Len(DigitChars) : DigitChars[i] = x

DigitOf(x) == (CHOOSE i \in 1..Len(DigitChars) : DigitChars[i] = x) - 1

\* long(''.join(num)) of a non-empty digit string; long('') raises ValueError
RECURSIVE long(_)
long(num) ==
    IF num = <<>> THEN 0
    ELSE long(SubSeq(num, 1, Len(num) - 1)) * 10 + DigitOf(num[Len(num)])

\* raise Exception: the loop is left at once
raise11(s) == [s EXCEPT !.raised = TRUE]

\* state == instart
instart11(s, x) ==
    IF s.inendpos = 1 THEN
        IF x = "#" THEN [s EXCEPT !.inendpos = @ + 1] ELSE raise11(s)
    ELSE IF s.inendpos = 2 THEN
        IF isdigit(x) THEN [s EXCEPT !.inendpos = @ + 1, !.num = Append(@, x)]
        ELSE raise11(s)
    ELSE IF s.inendpos = MAX_STARTCHUNK_SIZE THEN raise11(s)
    ELSE IF x = "\n" THEN
        IF s.num = <<>> THEN raise11(s)
        ELSE [s EXCEPT !.state = inmsg, !.expchunksize = long(s.num),
                       !.curchunksize = 0, !.inendpos = @ + 1]
    ELSE IF isdigit(x) THEN [s EXCEPT !.inendpos = @ + 1, !.num = Append(@, x)]
    ELSE raise11(s)

\* state == inmsg: message.append(x) needs a list; after ''.join it is a str
inmsg11(s, x) ==
    IF s.message.str THEN raise11(s)
    ELSE LET cur == s.curchunksize + 1
             msg == Append(s.message.bytes, x)
         IN IF s.expchunksize - cur = 0
            THEN [s EXCEPT !.curchunksize = cur, !.inendpos = 0, !.state = inbetween,
                           !.message = [bytes |-> msg, str |-> TRUE]]
            ELSE [s EXCEPT !.curchunksize = cur, !.message.bytes = msg]

\* state == inbetween
inbetween11(s, x) ==
    IF s.inendpos = 0 THEN
        IF x = "\n" THEN [s EXCEPT !.inendpos = @ + 1] ELSE raise11(s)
    ELSE IF s.inendpos = 1 THEN
        IF x = "#" THEN [s EXCEPT !.inendpos = @ + 1] ELSE raise11(s)
    ELSE IF x = "#" THEN [s EXCEPT !.inendpos = @ + 1, !.state = inend]
    ELSE raise11(s)

\* state == inend: the message is dispatched, the rest of the buffer becomes the
\* new buffer at position 0, and the loop is left (break)
inend11(s, x) ==
    IF s.inendpos = 3 THEN
        IF x = "\n"
        THEN [s EXCEPT !.inendpos = 0, !.state = idle,
                       !.out = Append(@, s.message.bytes),
                       !.buf = [data |-> readrest(s.buf), pos |-> 0],
                       !.message = [bytes |-> <<>>, str |-> FALSE],
                       !.expchunksize = 0,
                       !.broke = TRUE]
        ELSE raise11(s)
    ELSE s

step11(s, x) ==
    IF s.state = idle THEN
        IF x = "\n" THEN [s EXCEPT !.state = instart, !.inendpos = 1] ELSE raise11(s)
    ELSE IF s.state = instart THEN instart11(s, x)
    ELSE IF s.state = inmsg THEN inmsg11(s, x)
    ELSE IF s.state = inbetween THEN inbetween11(s, x)
    ELSE IF s.state = inend THEN inend11(s, x)
    ELSE raise11(s)

RECURSIVE loop11(_)
\* while True: x = buf.read(1); if not x: break ...
loop11(s) ==
    IF s.raised \/ s.broke \/ eof(s.buf) THEN s
    ELSE loop11(step11([s EXCEPT !.buf = advance(@)], peek(s.buf)))

\* self is [buffer, parsing_pos11, parsing_state11, expchunksize, curchunksize,
\* inendpos, message].  num = [] is a local of the call.  When the loop raises,
\* lines 352-358 are not reached: only the buffer's position and the list
\* self._message, both changed in place, differ from the state before the call.
_parse11(self) ==
    LET s == loop11([buf          |-> seek(self.buffer, self.parsing_pos11),
                     state        |-> self.parsing_state11,
                     inendpos     |-> self.inendpos,
                     num          |-> <<>>,
                     expchunksize |-> self.expchunksize,
                     curchunksize |-> self.curchunksize,
                     message      |-> self.message,
                     out          |-> <<>>,
                     raised       |-> FALSE,
                     broke        |-> FALSE])
    IN IF s.raised
       THEN [self EXCEPT !.buffer = s.buf,
                         !.message = [bytes |-> s.message.bytes, str |-> self.message.str]]
            @@ [out |-> s.out, raised |-> TRUE]
       ELSE [buffer          |-> s.buf,
             parsing_pos11   |-> tell(s.buf),
             parsing_state11 |-> s.state,
             expchunksize    |-> s.expchunksize,
             curchunksize    |-> s.curchunksize,
             inendpos        |-> s.inendpos,
             message         |-> s.message,
             out             |-> s.out,
             raised          |-> FALSE]

----------------------------------------------------------------------------
(* Session._dispatch_message and Session._dispatch_error, run without       *)
(* interference from the application thread                                 *)

Listeners == {"l1", "l2"}

\* parse_root(raw) returns the root element's tag and attributes, and raises
\* when the text does not start an element
parse_root_ok(raw) == raw # <<>> /\ Head(raw) = "<"

\* every text of out goes through _dispatch_message: a text parse_root rejects
\* is logged and dropped, any other is given to the callback of each listener
\* of the snapshot
dispatch_all(rec, snapshot, out) ==
    [l \in DOMAIN rec |->
        IF l \in snapshot THEN rec[l] \o SelectSeq(out, parse_root_ok) ELSE rec[l]]

\* _dispatch_error(err): errback(err) on each listener of the snapshot
dispatch_error_all(rec, snapshot, err) ==
    [l \in DOMAIN rec |-> IF l \in snapshot THEN Append(rec[l], err) ELSE rec[l]]

----------------------------------------------------------------------------
(* StdIOSession.run, the read path: data = r[0].read(); if data:            *)
(* self._buffer.write(data), then the parser the capabilities select        *)

BASE_10 == "urn:ietf:params:netconf:base:1.0"

BASE_11 == "urn:ietf:params:netconf:base:1.1"

\* if self._server_capabilities: the capabilities are unset until the hello
\* has been parsed, and a Capabilities object stands for a set one
truthy(caps) == caps # NoCapabilities

\* a read path that asks for base:1.1 on one side only
read_parser_either11(client, server) ==
    IF truthy(server)
    THEN IF BASE_11 \in server \/ BASE_11 \in client THEN "parse11"
         ELSE IF BASE_10 \in server \/ BASE_10 \in client THEN "parse10"
         ELSE "raise"
    ELSE "parse10"

\* lines 73-81: which parser the read path runs
read_parser(client, server) ==
    IF truthy(server)
    THEN IF BASE_11 \in server /\ BASE_11 \in client THEN "parse11"
         ELSE IF BASE_10 \in server \/ BASE_10 \in client THEN "parse10"
         ELSE "raise"
    ELSE "parse10"

Self == [buffer          |-> buffer,
         parsing_state10 |-> parsing_state10,
         parsing_pos10   |-> parsing_pos10,
         parsing_pos11   |-> parsing_pos11,
         parsing_state11 |-> parsing_state11,
         expchunksize    |-> expchunksize,
         curchunksize    |-> curchunksize,
         inendpos        |-> inendpos,
         message         |-> message]

\* reads beyond this many are not told apart
ReadsCounted == 2

\* the except of run: self.close() sets _connected False, then
\* self._dispatch_error(e); the loop is over
run_except(err) ==
    /\ connected' = FALSE
    /\ errors' = dispatch_error_all(errors, listeners, err)
    /\ running' = FALSE

\* one pass of the loop in which select reports the channel readable and
\* read() returns the next k bytes
RunRead(k) ==
    /\ running
    /\ k \in 1..Len(wire)
    /\ wire' = From(wire, k + 1)
    /\ fed' = fed + k
    /\ reads' = IF reads < ReadsCounted THEN reads + 1 ELSE reads
    /\ last_read' = [parser |-> read_parser(client_capabilities, server_capabilities),
                     client |-> client_capabilities, server |-> server_capabilities]
    /\ LET appended == [Self EXCEPT !.buffer = write(buffer, Upto(wire, k))]
           which   == read_parser(client_capabilities, server_capabilities)
       IN CASE which = "parse10" ->
                  LET r == _parse10(appended)
                  IN /\ buffer' = r.buffer
                     /\ parsing_state' = r.parsing_state
                     /\ parsing_pos10' = r.parsing_pos10
                     /\ dispatched' = dispatched \o r.out
                     /\ received' = dispatch_all(received, listeners, r.out)
                     /\ UNCHANGED << parsing_pos11, parsing_state11, expchunksize,
                                     curchunksize, inendpos, message,
                                     connected, errors, running >>
            [] which = "parse11" ->
                  LET r == _parse11(appended)
                  IN /\ buffer' = r.buffer
                     /\ parsing_pos11' = r.parsing_pos11
                     /\ parsing_state11' = r.parsing_state11
                     /\ expchunksize' = r.expchunksize
                     /\ curchunksize' = r.curchunksize
                     /\ inendpos' = r.inendpos
                     /\ message' = r.message
                     /\ dispatched' = dispatched \o r.out
                     /\ received' = dispatch_all(received, listeners, r.out)
                     /\ IF r.raised
                        THEN run_except("Exception")
                        ELSE UNCHANGED << connected, errors, running >>
                     /\ UNCHANGED << parsing_state, parsing_pos10 >>
            [] OTHER ->
                  /\ buffer' = appended.buffer
                  /\ run_except("No capabilities for reading data.")
                  /\ UNCHANGED << parsing_state, parsing_pos10, parsing_pos11,
                                  parsing_state11, expchunksize, curchunksize,
                                  inendpos, message, dispatched, received >>
    /\ UNCHANGED << post_connect, peer_closed, written, listeners, lock, q,
                    client_capabilities, server_capabilities, id,
                    parsing_state10, sent, app, wrk, gone, at_snapshot,
                    send_result >>

----------------------------------------------------------------------------
(* The state after construction and after connect() has started the worker  *)

AppIdle == [pc |-> "idle", op |-> None, arg |-> None, result |-> None]

WrkIdle == [pc |-> "idle", kind |-> None, text |-> <<>>, snapshot |-> {}, todo |-> {},
            invoked |-> {}, warned |-> {}, result |-> None]

NoLog == [l \in Listeners |-> <<>>]

\* _post_connect has not been called
NoPostConnect == [pc |-> "none", init_event |-> FALSE, error |-> None]

\* Session.__init__ and Rfc4742Session.__init__, with the listeners registered
\* and the capabilities given
Constructed(lst, client, server, conn) ==
    /\ listeners = lst
    /\ lock = "free"
    /\ q = <<>>
    /\ client_capabilities = client
    /\ server_capabilities = server
    /\ id = None
    /\ connected = conn
    /\ buffer = StringIO
    /\ parsing_state10 = 0
    /\ parsing_state = Unset
    /\ parsing_pos10 = 0
    /\ parsing_pos11 = 0
    /\ parsing_state11 = 0
    /\ expchunksize = 0
    /\ curchunksize = 0
    /\ inendpos = 0
    /\ message = [bytes |-> <<>>, str |-> FALSE]
    /\ dispatched = <<>>
    /\ received = NoLog
    /\ errors = NoLog
    /\ app = AppIdle
    /\ wrk = WrkIdle
    /\ gone = {}
    /\ at_snapshot = [registry |-> {}, gone |-> {}]
    /\ send_result = [outcome |-> None, arg |-> None, seq |-> FALSE]
    /\ post_connect = NoPostConnect
    /\ peer_closed = FALSE
    /\ written = <<>>
    /\ last_read = [parser |-> None, client |-> {}, server |-> {}]

\* the peer has written the frames of msgs and the worker has read nothing
Peer(msgs) ==
    /\ sent = msgs
    /\ wire = Concat([i \in 1..Len(msgs) |-> msgs[i].enc])
    /\ fed = 0
    /\ reads = 0
    /\ running = TRUE

----------------------------------------------------------------------------
(* A v1.0 peer: each message is its text followed by MSG_DELIM.  A text is  *)
(* optional leading whitespace, "<" (or, for a text that is not XML, "a"),  *)
(* a few pieces of content and ">".  The pieces are a character, the end of *)
(* a CDATA section and a pair of brackets.                                   *)

MaxPieces == 3
MaxMsgs10 == 3
MaxStream10 == 1

Pieces == {<<"a">>, <<"]", "]", ">">>, <<"]", "]">>}

PieceSeqs == UNION {[1..k -> Pieces] : k \in 0..MaxPieces}

Heads == {"<", "a"}

Pads == {<<>>, <<"\n">>}

DelimAt(s, i) == i + Len(MSG_DELIM) - 1 <= Len(s)
                 /\ SubSeq(s, i, i + Len(MSG_DELIM) - 1) = MSG_DELIM

\* the frame of m holds the delimiter once, at its end
WellFramed10(m) == \A i \in 1..Len(m) : ~DelimAt(m \o MSG_DELIM, i)

Frame10(m) == [msg |-> m, chunks |-> <<m>>, enc |-> m \o MSG_DELIM]

Cuts(k, len) ==
    {c \in [0..k -> 0..len] :
        c[0] = 0 /\ c[k] = len /\ \A i \in 1..k : c[i - 1] <= c[i]}

Peer10(maxmsgs) ==
    \E k \in 1..maxmsgs, ps \in PieceSeqs, pad \in Pads :
      \E heads \in [1..k -> Heads], c \in Cuts(k, Len(ps)) :
        LET text(i) == pad \o <<heads[i]>> \o Concat(SubSeq(ps, c[i - 1] + 1, c[i]))
                           \o <<">">>
        IN /\ \A i \in 1..k : WellFramed10(text(i))
           /\ Peer([i \in 1..k |-> Frame10(text(i))])

\* what a listener is due: the stripped texts that parse_root accepts
Texts10 == [i \in 1..Len(sent) |-> strip(sent[i].msg)]

InitEOM ==
    /\ Constructed(Listeners, {BASE_10}, NoCapabilities, TRUE)
    /\ Peer10(MaxStream10)

InitEOMOnce ==
    /\ Constructed(Listeners, {BASE_10}, NoCapabilities, TRUE)
    /\ Peer10(MaxMsgs10)

NextRead == \E k \in 1..Len(wire) : RunRead(k)

NextReadAll == RunRead(Len(wire))

\* v1.0 stream, read in any fragments
SpecEOM == InitEOM /\ [][NextRead]_vars

\* v1.0 stream that arrives in one read
SpecEOMOnce == InitEOMOnce /\ [][NextReadAll]_vars

----------------------------------------------------------------------------
(* Claims about the v1.0 (EOM) parser *)

\* every byte the peer wrote
Stream == Concat([i \in 1..Len(sent) |-> sent[i].enc])

\* what _parse10 dispatches when the whole stream is in a fresh buffer
Whole10 == _parse10([Self EXCEPT !.buffer = write(StringIO, Stream),
                                 !.parsing_state10 = 0,
                                 !.parsing_pos10 = 0]).out

\* C1: a single message M whose encoding M + ']]>]]>' has been read in any
\* fragments (a cut inside the delimiter included) has been dispatched exactly
\* as the parse of the whole encoding in one call dispatches it.
C1_EOMStreaming ==
    (Len(sent) = 1 /\ wire = <<>>) => dispatched = Whole10

\* C6: N messages, each followed by ']]>]]>', all in the buffer for one call of
\* _parse10: exactly the N stripped texts are dispatched, in order, and the
\* buffer is left empty.
C6_EOMSequence ==
    (reads = 1 /\ wire = <<>>) => (dispatched = Texts10 /\ buffer.data = <<>>)

\* C10: when a correctly framed text that parse_root rejects is in the buffer,
\* no listener gets it, nothing is raised, the session stays connected and each
\* listener gets every other text of the buffer, in order.
C10_MalformedDropped ==
    (reads = 1 /\ wire = <<>> /\ \E i \in 1..Len(sent) : ~parse_root_ok(Texts10[i]))
        => /\ \A l \in listeners : received[l] = SelectSeq(Texts10, parse_root_ok)
           /\ connected
           /\ running
           /\ errors = NoLog

----------------------------------------------------------------------------
(* A v1.1 peer: each message is one or more chunks '\n#<len>\n' + len bytes *)
(* and then END_DELIM.  Both sides advertise base:1.1 and the hello is over. *)

MaxFrames11 == 3
MaxChunkLen == 2
MaxLongChunk == 11
MaxOnceChunks == 3
MaxDigits == 11

\* the decimal digits of a natural number
RECURSIVE Dec(_)
Dec(k) == IF k < 10 THEN <<DigitChars[k + 1]>>
          ELSE Dec(k \div 10) \o <<DigitChars[(k % 10) + 1]>>

BodyBytes == {"<", "\n"}

ShortBodies == UNION {[1..k -> BodyBytes] : k \in 1..MaxChunkLen}

\* a body of len bytes: "<" and then "a"s
LongBody(len) == [i \in 1..len |-> IF i = 1 THEN "<" ELSE "a"]

Header11(digits) == <<"\n", "#">> \o digits \o <<"\n">>

Chunk11(body) == Header11(Dec(Len(body))) \o body

Frame11(bodies) ==
    [msg    |-> Concat(bodies),
     chunks |-> bodies,
     enc    |-> Concat([i \in 1..Len(bodies) |-> Chunk11(bodies[i])]) \o END_DELIM]

\* the frames of at most maxchunks chunks
Frames11(maxchunks) ==
    {Frame11(bs) : bs \in UNION {[1..k -> ShortBodies] : k \in 1..maxchunks}}

LongFrames == {Frame11(<<LongBody(len)>>) : len \in (MaxChunkLen + 1)..MaxLongChunk}

\* a peer that sends every message as one chunk
Peer11 ==
    \/ \E k \in 1..MaxFrames11 : \E fs \in [1..k -> Frames11(1)] : Peer(fs)
    \/ \E f \in LongFrames : Peer(<<f>>)

\* a peer that has sent one message of up to MaxOnceChunks chunks
Peer11Once == \E f \in Frames11(MaxOnceChunks) \cup LongFrames : Peer(<<f>>)

InitChunked ==
    /\ Constructed(Listeners, {BASE_10, BASE_11}, {BASE_10, BASE_11}, TRUE)
    /\ Peer11

InitChunkedOnce ==
    /\ Constructed(Listeners, {BASE_10, BASE_11}, {BASE_10, BASE_11}, TRUE)
    /\ Peer11Once

\* v1.1 stream of single-chunk messages, read in any fragments
SpecChunked == InitChunked /\ [][NextRead]_vars

\* one v1.1 message that arrives in one read
SpecChunkedOnce == InitChunkedOnce /\ [][NextReadAll]_vars

\* length fields of len digits: "1" or "4", and then "0"s or "9"s
Fields(len) == {[i \in 1..len |-> IF i = 1 THEN hd ELSE tl] :
                    hd \in {"1", "4"}, tl \in {"0", "9"}}

\* the peer has written the header of a chunk; the chunk's bytes are to come
PeerHeader ==
    \E len \in 1..MaxDigits : \E digits \in Fields(len) :
        Peer(<<[msg |-> <<>>, chunks |-> <<>>, enc |-> Header11(digits)]>>)

InitChunkHeader ==
    /\ Constructed(Listeners, {BASE_10, BASE_11}, {BASE_10, BASE_11}, TRUE)
    /\ PeerHeader

\* the header of a v1.1 chunk, read in any fragments
SpecChunkHeader == InitChunkHeader /\ [][NextRead]_vars

----------------------------------------------------------------------------
(* Claims about the v1.1 (chunked) parser *)

\* _parse11 on the whole stream in a fresh buffer
Whole11 == _parse11([Self EXCEPT !.buffer = write(StringIO, Stream),
                                 !.parsing_pos11 = 0,
                                 !.parsing_state11 = idle,
                                 !.expchunksize = 0,
                                 !.curchunksize = 0,
                                 !.inendpos = 0,
                                 !.message = [bytes |-> <<>>, str |-> FALSE]])

\* C2: a frame of K >= 1 chunks and the terminator, in the buffer for one call
\* of _parse11: nothing is raised and exactly one message, the concatenation of
\* the K chunk bodies, is dispatched.
C2_ChunkedReassembly ==
    (Len(sent) = 1 /\ reads = 1 /\ wire = <<>>)
        => (running /\ dispatched = <<sent[1].msg>>)

\* C3: a frame that one call of _parse11 turns into one message, read in any
\* fragments (a cut between two digits of the length field, or between its last
\* digit and the newline, included): nothing is raised and the same single
\* message is dispatched.
C3_ChunkedStreaming ==
    (Len(sent) = 1 /\ wire = <<>> /\ ~Whole11.raised)
        => (running /\ dispatched = Whole11.out)

\* the frames whose last byte is among the first k bytes of the stream
RECURSIVE Complete(_, _)
Complete(i, k) ==
    IF i > Len(sent) \/ Len(sent[i].enc) > k THEN 0
    ELSE 1 + Complete(i + 1, k - Len(sent[i].enc))

RECURSIVE EndOf(_)
EndOf(i) == IF i = 0 THEN 0 ELSE EndOf(i - 1) + Len(sent[i].enc)

\* C4: after an invocation of the parser that raised nothing, every frame that
\* is complete in the bytes read so far has been dispatched and the buffer holds
\* exactly the bytes read after the last complete frame.
C4_NothingCompleteLeft ==
    (reads >= 1 /\ running)
        => /\ Len(dispatched) = Complete(1, fed)
           /\ buffer.data = From(Upto(Stream, fed), EndOf(Complete(1, fed)) + 1)

\* the messages of the first j frames that parse_root accepts
Due(j) == SelectSeq([i \in 1..j |-> sent[i].msg], parse_root_ok)

\* C5: while the worker runs, whatever the reads were, the listeners have got
\* the messages of the first j frames, each once, in wire order and byte for
\* byte, and the buffer holds every byte read after frame j: no byte a parse
\* left in the buffer is dropped or overwritten by a later read.
C5_WireOrderNoLoss ==
    running =>
        \E j \in 0..Len(sent) :
            /\ \A l \in listeners : received[l] = Due(j)
            /\ buffer.data = From(Upto(Stream, fed), EndOf(j) + 1)

FieldOf(header) == SubSeq(header, 3, Len(header) - 1)

\* C7: a length field and its newline, in the buffer for one call of _parse11,
\* is accepted (the parser expects the chunk's bytes, as many as the field says)
\* when it has 1 to 10 digits and raises when it has more.
C7_ChunkLengthBound ==
    (reads = 1 /\ wire = <<>>)
        => /\ running <=> Len(FieldOf(sent[1].enc)) <= MAX_STARTCHUNK_SIZE
           /\ running => /\ parsing_state11 = inmsg
                         /\ expchunksize = long(FieldOf(sent[1].enc))

----------------------------------------------------------------------------
(* The application thread and the worker thread on one session: the         *)
(* registry operations and send on one side, the dispatches on the other,   *)
(* one step per lock operation and per callback.                            *)

MaxQueue == 2
MaxDispatch == 1

\* what add_listener may be given: the listeners, and an object that is no
\* SessionListener
Objects == Listeners \cup {"object"}

\* messages the application sends
Outgoing == {"rpc"}

\* texts the frame parser hands to _dispatch_message: one parse_root accepts,
\* one it rejects
Incoming == {<<"<">>, <<"a">>}

\* a registry without its lock: a thread enters whoever is inside
can_acquire_unlocked(l) == TRUE

\* with self._lock: the thread goes on only when no thread holds the lock
can_acquire(l) == l = "free"

\* listeners = list(self._listeners)
snapshot_of(registry) == registry

\* a send that does not look at the connected flag
send_refused_never(conn) == FALSE

\* send: if not self.connected: raise TransportError
send_refused(conn) == ~conn

\* add_listener(o): isinstance check, then the lock is asked for
AddListenerCall(o) ==
    /\ app.pc = "idle"
    /\ app' = IF o \in Listeners
              THEN [pc |-> "acquire", op |-> "add_listener", arg |-> o, result |-> None]
              ELSE [pc |-> "idle", op |-> "add_listener", arg |-> o,
                    result |-> "SessionError"]
    /\ UNCHANGED << hs_vars, listeners, lock, q, client_capabilities, server_capabilities, id,
                    connected, buffer, parsing_state10, parsing_state, parsing_pos10,
                    parsing_pos11, parsing_state11, expchunksize, curchunksize,
                    inendpos, message, wire, fed, reads, sent, running, dispatched,
                    received, errors, wrk, gone, at_snapshot, send_result >>

\* remove_listener(o): the lock is asked for
RemoveListenerCall(o) ==
    /\ app.pc = "idle"
    /\ app' = [pc |-> "acquire", op |-> "remove_listener", arg |-> o, result |-> None]
    /\ UNCHANGED << hs_vars, listeners, lock, q, client_capabilities, server_capabilities, id,
                    connected, buffer, parsing_state10, parsing_state, parsing_pos10,
                    parsing_pos11, parsing_state11, expchunksize, curchunksize,
                    inendpos, message, wire, fed, reads, sent, running, dispatched,
                    received, errors, wrk, gone, at_snapshot, send_result >>

\* the application thread enters its with self._lock:
AppAcquire ==
    /\ app.pc = "acquire"
    /\ can_acquire(lock)
    /\ lock' = "app"
    /\ app' = [app EXCEPT !.pc = "locked"]
    /\ UNCHANGED << hs_vars, listeners, q, client_capabilities, server_capabilities, id,
                    connected, buffer, parsing_state10, parsing_state, parsing_pos10,
                    parsing_pos11, parsing_state11, expchunksize, curchunksize,
                    inendpos, message, wire, fed, reads, sent, running, dispatched,
                    received, errors, wrk, gone, at_snapshot, send_result >>

\* self._listeners.add(listener) or self._listeners.discard(listener); the
\* with block ends and the call returns
AppMutate ==
    /\ app.pc = "locked"
    /\ listeners' = IF app.op = "add_listener" THEN listeners \cup {app.arg}
                    ELSE listeners \ {app.arg}
    /\ gone' = IF app.op = "add_listener" THEN gone \ {app.arg}
               ELSE gone \cup {app.arg}
    /\ lock' = "free"
    /\ app' = [app EXCEPT !.pc = "idle", !.result = "returned"]
    /\ UNCHANGED << hs_vars, q, client_capabilities, server_capabilities, id,
                    connected, buffer, parsing_state10, parsing_state, parsing_pos10,
                    parsing_pos11, parsing_state11, expchunksize, curchunksize,
                    inendpos, message, wire, fed, reads, sent, running, dispatched,
                    received, errors, wrk, at_snapshot, send_result >>

\* send(m), line 137: the connected flag is read
SendCall(m) ==
    /\ app.pc = "idle"
    /\ send_refused(connected) \/ Len(q) < MaxQueue
    /\ IF send_refused(connected)
       THEN /\ send_result' = [outcome |-> "TransportError", arg |-> m,
                               seq |-> ~send_result.seq]
            /\ app' = [pc |-> "idle", op |-> "send", arg |-> m,
                       result |-> "TransportError"]
       ELSE /\ send_result' = [outcome |-> None, arg |-> m, seq |-> ~send_result.seq]
            /\ app' = [pc |-> "send_put", op |-> "send", arg |-> m, result |-> None]
    /\ UNCHANGED << hs_vars, listeners, lock, q, client_capabilities, server_capabilities, id,
                    connected, buffer, parsing_state10, parsing_state, parsing_pos10,
                    parsing_pos11, parsing_state11, expchunksize, curchunksize,
                    inendpos, message, wire, fed, reads, sent, running, dispatched,
                    received, errors, wrk, gone, at_snapshot >>

\* send(m), line 140: self._q.put(message)
SendPut ==
    /\ app.pc = "send_put"
    /\ q' = Append(q, app.arg)
    /\ send_result' = [send_result EXCEPT !.outcome = "queued"]
    /\ app' = [app EXCEPT !.pc = "idle", !.result = "returned"]
    /\ UNCHANGED << hs_vars, listeners, lock, client_capabilities, server_capabilities, id,
                    connected, buffer, parsing_state10, parsing_state, parsing_pos10,
                    parsing_pos11, parsing_state11, expchunksize, curchunksize,
                    inendpos, message, wire, fed, reads, sent, running, dispatched,
                    received, errors, wrk, gone, at_snapshot >>

\* _dispatch_message(raw), lines 47-51: parse_root; a text it rejects is
\* logged and the call returns
DispatchMessageCall(raw) ==
    /\ running
    /\ wrk.pc = "idle"
    /\ Len(dispatched) < MaxDispatch
    /\ dispatched' = Append(dispatched, raw)
    /\ wrk' = IF parse_root_ok(raw)
              THEN [WrkIdle EXCEPT !.pc = "acquire", !.kind = "message", !.text = raw]
              ELSE [WrkIdle EXCEPT !.kind = "message", !.text = raw,
                                   !.result = "dropped"]
    /\ UNCHANGED << hs_vars, listeners, lock, q, client_capabilities, server_capabilities, id,
                    connected, buffer, parsing_state10, parsing_state, parsing_pos10,
                    parsing_pos11, parsing_state11, expchunksize, curchunksize,
                    inendpos, message, wire, fed, reads, sent, running,
                    received, errors, app, gone, at_snapshot, send_result >>

\* an exception in the worker loop (stdio.py 112-115): self.close() clears
\* _connected, then _dispatch_error(e) asks for the lock
WrkExcept ==
    /\ running
    /\ wrk.pc \in {"idle", "except"}
    /\ connected' = FALSE
    /\ wrk' = [WrkIdle EXCEPT !.pc = "acquire", !.kind = "error",
                              !.text = IF wrk.pc = "except" THEN <<"callback">>
                                       ELSE <<"channel">>]
    /\ UNCHANGED << hs_vars, listeners, lock, q, client_capabilities, server_capabilities, id,
                    buffer, parsing_state10, parsing_state, parsing_pos10,
                    parsing_pos11, parsing_state11, expchunksize, curchunksize,
                    inendpos, message, wire, fed, reads, sent, running, dispatched,
                    received, errors, app, gone, at_snapshot, send_result >>

\* the worker enters the with self._lock: of a dispatch
WrkAcquire ==
    /\ wrk.pc = "acquire"
    /\ can_acquire(lock)
    /\ lock' = "worker"
    /\ wrk' = [wrk EXCEPT !.pc = "copying"]
    /\ UNCHANGED << hs_vars, listeners, q, client_capabilities, server_capabilities, id,
                    connected, buffer, parsing_state10, parsing_state, parsing_pos10,
                    parsing_pos11, parsing_state11, expchunksize, curchunksize,
                    inendpos, message, wire, fed, reads, sent, running, dispatched,
                    received, errors, app, gone, at_snapshot, send_result >>

\* listeners = list(self._listeners); the with block ends
WrkSnapshot ==
    /\ wrk.pc = "copying"
    /\ wrk' = [wrk EXCEPT !.pc = "callbacks", !.snapshot = snapshot_of(listeners),
                          !.todo = snapshot_of(listeners)]
    /\ at_snapshot' = [registry |-> listeners, gone |-> gone]
    /\ lock' = "free"
    /\ UNCHANGED << hs_vars, listeners, q, client_capabilities, server_capabilities, id,
                    connected, buffer, parsing_state10, parsing_state, parsing_pos10,
                    parsing_pos11, parsing_state11, expchunksize, curchunksize,
                    inendpos, message, wire, fed, reads, sent, running, dispatched,
                    received, errors, app, gone, send_result >>

\* a dispatcher that guards no callback
caught_never(kind) == FALSE

\* a dispatcher that guards every callback
caught_always(kind) == TRUE

\* l.errback(err) runs inside try / except Exception (lines 63-66);
\* l.callback(root, raw) runs unguarded (line 56)
caught(kind) == kind = "error"

\* one pass of for l in listeners: l.callback(root, raw), which may raise and
\* then ends the dispatch, or l.errback(err), whose exception is caught and
\* logged as a warning
WrkCallback(l, raises) ==
    /\ wrk.pc = "callbacks"
    /\ l \in wrk.todo
    /\ IF wrk.kind = "message"
       THEN /\ received' = [received EXCEPT ![l] = Append(@, wrk.text)]
            /\ errors' = errors
       ELSE /\ errors' = [errors EXCEPT ![l] = Append(@, wrk.text)]
            /\ received' = received
    /\ wrk' = IF raises /\ ~caught(wrk.kind)
              THEN [wrk EXCEPT !.todo = @ \ {l}, !.invoked = @ \cup {l},
                               !.pc = "except", !.result = "raised"]
              ELSE [wrk EXCEPT !.todo = @ \ {l}, !.invoked = @ \cup {l},
                               !.warned = IF raises THEN @ \cup {l} ELSE @]
    /\ UNCHANGED << hs_vars, listeners, lock, q, client_capabilities, server_capabilities, id,
                    connected, buffer, parsing_state10, parsing_state, parsing_pos10,
                    parsing_pos11, parsing_state11, expchunksize, curchunksize,
                    inendpos, message, wire, fed, reads, sent, running, dispatched,
                    app, gone, at_snapshot, send_result >>

\* the for loop is over: _dispatch_message returns to the parser, and after
\* _dispatch_error the worker's run returns
WrkReturn ==
    /\ wrk.pc = "callbacks"
    /\ wrk.todo = {}
    /\ wrk' = [wrk EXCEPT !.pc = IF wrk.kind = "error" THEN "stopped" ELSE "idle",
                          !.result = "done"]
    /\ running' = (wrk.kind # "error")
    /\ UNCHANGED << hs_vars, listeners, lock, q, client_capabilities, server_capabilities, id,
                    connected, buffer, parsing_state10, parsing_state, parsing_pos10,
                    parsing_pos11, parsing_state11, expchunksize, curchunksize,
                    inendpos, message, wire, fed, reads, sent, dispatched,
                    received, errors, app, gone, at_snapshot, send_result >>

\* a session that is constructed, or connected with its worker running
Init ==
    /\ \E conn \in BOOLEAN :
          /\ Constructed({}, {BASE_10, BASE_11}, NoCapabilities, conn)
          /\ running = conn
    /\ sent = <<>>
    /\ wire = <<>>
    /\ fed = 0
    /\ reads = 0

Next ==
    \/ \E o \in Objects : AddListenerCall(o)
    \/ \E o \in Objects : RemoveListenerCall(o)
    \/ AppAcquire
    \/ AppMutate
    \/ \E m \in Outgoing : SendCall(m)
    \/ SendPut
    \/ \E raw \in Incoming : DispatchMessageCall(raw)
    \/ WrkExcept
    \/ WrkAcquire
    \/ WrkSnapshot
    \/ \E l \in Listeners, raises \in BOOLEAN : WrkCallback(l, raises)
    \/ WrkReturn

Spec == Init /\ [][Next]_vars

----------------------------------------------------------------------------
(* Claims about send and the listener registry *)

\* C8: a send(m) that finds connected false fails with the not-connected error
\* and changes neither the queue nor the listeners, id, capabilities or
\* connected; a send(m) that finds connected true goes on to put exactly m at
\* the tail of the queue.
C8_SendNotConnected ==
    [][ /\ (send_result'.seq # send_result.seq) =>
              IF connected
              THEN /\ app'.pc = "send_put"
                   /\ app'.arg = send_result'.arg
                   /\ q' = q
              ELSE /\ send_result'.outcome = "TransportError"
                   /\ app'.pc = "idle"
                   /\ UNCHANGED << q, listeners, id, client_capabilities,
                                   server_capabilities, connected >>
        /\ (app.pc = "send_put" /\ app'.pc # "send_put") =>
              /\ q' = Append(q, app.arg)
              /\ send_result'.outcome = "queued"
      ]_vars

\* a send was refused on a disconnected session whose queue holds a message
C8_Witness ==
    /\ ~connected
    /\ send_result.outcome = "TransportError"
    /\ app.result = "TransportError"
    /\ q # <<>>

\* C9: whatever the interleaving of add_listener and remove_listener with a
\* dispatch, the registry is not copied while it is being changed, the lock is
\* not held while callbacks run, a dispatch invokes only listeners that were
\* in the registry when its snapshot was taken (so none whose removal had
\* returned by then), and a dispatch that runs to its end has invoked all of
\* them.
C9_ListenerSnapshot ==
    /\ ~(app.pc = "locked" /\ wrk.pc = "copying")
    /\ wrk.pc \in {"callbacks", "except"} => lock # "worker"
    /\ wrk.invoked \subseteq at_snapshot.registry
    /\ wrk.invoked \cap at_snapshot.gone = {}
    /\ wrk.result = "done" => wrk.invoked = at_snapshot.registry

\* a dispatch ran to its end and invoked a listener, a removal had returned
\* before its snapshot, and the registry changed while its callbacks ran
C9_Witness ==
    /\ wrk.result = "done"
    /\ wrk.invoked # {}
    /\ at_snapshot.gone # {}
    /\ listeners # at_snapshot.registry

\* C11: once an exception has reached the worker loop the session is marked
\* disconnected before any errback runs; no listener ever gets a second error;
\* when the worker has stopped, every listener of the snapshot has got the
\* error exactly once (whether or not an errback raised) and no other listener
\* has got one; and a stopped worker does nothing more.
C11_ErrorFanOutOnce ==
    [][ /\ (wrk'.kind = "error" => ~connected')
        /\ \A l \in Listeners : Len(errors'[l]) <= 1
        /\ wrk'.pc = "stopped" =>
              /\ ~running'
              /\ \A l \in Listeners :
                    errors'[l] = IF l \in at_snapshot'.registry THEN <<wrk'.text>>
                                 ELSE <<>>
        /\ wrk.pc = "stopped" => UNCHANGED << wrk, running, connected, errors, received >>
      ]_vars

\* the worker has stopped after an error dispatch to both listeners in which
\* an errback raised
C11_Witness ==
    /\ wrk.pc = "stopped"
    /\ at_snapshot.registry = Listeners
    /\ wrk.warned # {}
    /\ \A l \in Listeners : Len(errors[l]) = 1

\* C19: an exception a listener's callback raises during _dispatch_message is
\* not caught by the dispatcher (no message dispatch goes on after a callback
\* that raised); once it is on its way no listener receives anything more,
\* and the worker's next step is its except handler: connected is false and
\* the error dispatch carries that exception; when the worker has stopped
\* after it, every listener of the snapshot was handed the exception.
C19_LoudMessageFailure ==
    [][ /\ wrk'.kind = "message" => wrk'.warned = {}
        /\ (wrk.kind = "message" /\ wrk'.result = "raised" /\ wrk.result # "raised")
              => /\ wrk'.pc = "except"
                 /\ wrk'.todo \subseteq wrk.todo
                 /\ Cardinality(wrk.todo \ wrk'.todo) = 1
        /\ wrk.pc = "except" =>
              /\ received' = received
              /\ wrk' # wrk =>
                    /\ ~connected'
                    /\ wrk'.kind = "error"
                    /\ wrk'.text = <<"callback">>
        /\ (wrk'.pc = "stopped" /\ wrk'.text = <<"callback">>) =>
              \A l \in at_snapshot'.registry : errors'[l] = << <<"callback">> >>
      ]_vars

\* the first callback of a message dispatch raised: one listener received the
\* message, the other never did, and both were handed the error
C19_Witness ==
    /\ wrk.pc = "stopped"
    /\ wrk.text = <<"callback">>
    /\ at_snapshot.registry = Listeners
    /\ \E l \in Listeners : received[l] # <<>>
    /\ \E l \in Listeners : received[l] = <<>>
    /\ \A l \in Listeners : errors[l] = << <<"callback">> >>

----------------------------------------------------------------------------
(* Session._post_connect and HelloHandler: the handshake.  The application  *)
(* thread runs _post_connect line by line; the worker runs one pass of its  *)
(* loop per step, in which a read hands the worker whole frames.            *)

\* the HelloHandler instance _post_connect registers
HELLO == "HelloHandler"

\* a capability that is neither base version
CAP_OTHER == "urn:ietf:params:netconf:capability:candidate:1.0"

\* HelloHandler.callback, line 396: the root's tag is hello
root_is_hello(raw) == Len(raw) >= 2 /\ raw[2] = "h"

\* to_ele(raw) raises on a text that is not a well-formed document
to_ele_ok(raw) == raw # <<>> /\ raw[Len(raw)] = ">"

Bytes(raw) == {raw[i] : i \in 1..Len(raw)}

\* HelloHandler.parse: the session-id (0 when there is none) and the
\* capability of each capability element
HelloHandler_parse(raw) ==
    [sid          |-> IF "s" \in Bytes(raw) THEN "s" ELSE "0",
     capabilities |-> {c \in {BASE_10, BASE_11, CAP_OTHER} :
                          \/ c = BASE_10 /\ "0" \in Bytes(raw)
                          \/ c = BASE_11 /\ "1" \in Bytes(raw)
                          \/ c = CAP_OTHER /\ "c" \in Bytes(raw)}]

\* a callback that does not look at the root's tag
hello_callback_any_root(st, raw) ==
    IF to_ele_ok(raw)
    THEN [st EXCEPT !.id = HelloHandler_parse(raw).sid,
                    !.server = HelloHandler_parse(raw).capabilities,
                    !.init_event = TRUE]
    ELSE [st EXCEPT !.error = "XMLError", !.init_event = TRUE]

\* HelloHandler.callback(root, raw) with ok_cb and err_cb of _post_connect,
\* on st = [id, server, init_event, error]
hello_callback(st, raw) ==
    IF ~root_is_hello(raw) THEN st
    ELSE IF to_ele_ok(raw)
         THEN [st EXCEPT !.id = HelloHandler_parse(raw).sid,
                         !.server = HelloHandler_parse(raw).capabilities,
                         !.init_event = TRUE]
         ELSE [st EXCEPT !.error = "XMLError", !.init_event = TRUE]

\* HelloHandler.errback(err) with err_cb
hello_errback(st, err) == [st EXCEPT !.error = err, !.init_event = TRUE]

\* _dispatch_message on each text of out, as the HelloHandler sees it
RECURSIVE hello_dispatch(_, _)
hello_dispatch(st, out) ==
    IF out = <<>> THEN st
    ELSE hello_dispatch(IF parse_root_ok(Head(out)) THEN hello_callback(st, Head(out))
                        ELSE st,
                        Tail(out))

\* what the handshake can change
HelloState == [id |-> id, server |-> server_capabilities,
               init_event |-> post_connect.init_event, error |-> post_connect.error]

\* the state st is stored back
HelloStored(st) ==
    /\ id' = st.id
    /\ server_capabilities' = st.server
    /\ post_connect' = [post_connect EXCEPT !.init_event = st.init_event,
                                            !.error = st.error]

\* one read of k bytes through the parser the capabilities select
Parsed(k) ==
    LET appended == [Self EXCEPT !.buffer = write(buffer, Upto(wire, k))]
        which    == read_parser(client_capabilities, server_capabilities)
    IN CASE which = "parse10" ->
              LET r == _parse10(appended)
              IN [which |-> which, out |-> r.out, raised |-> FALSE,
                  parsing_state |-> r.parsing_state,
                  self |-> [appended EXCEPT !.buffer = r.buffer,
                                            !.parsing_pos10 = r.parsing_pos10]]
         [] which = "parse11" ->
              LET r == _parse11(appended)
              IN [which |-> which, out |-> r.out, raised |-> r.raised,
                  parsing_state |-> parsing_state,
                  self |-> [appended EXCEPT !.buffer = r.buffer,
                                            !.parsing_pos11 = r.parsing_pos11,
                                            !.parsing_state11 = r.parsing_state11,
                                            !.expchunksize = r.expchunksize,
                                            !.curchunksize = r.curchunksize,
                                            !.inendpos = r.inendpos,
                                            !.message = r.message]]
         [] OTHER ->
              [which |-> which, out |-> <<>>, raised |-> TRUE,
               parsing_state |-> parsing_state, self |-> appended]

\* the parser's fields are stored back
SelfStored(s) ==
    /\ buffer' = s.buffer
    /\ parsing_state10' = s.parsing_state10
    /\ parsing_pos10' = s.parsing_pos10
    /\ parsing_pos11' = s.parsing_pos11
    /\ parsing_state11' = s.parsing_state11
    /\ expchunksize' = s.expchunksize
    /\ curchunksize' = s.curchunksize
    /\ inendpos' = s.inendpos
    /\ message' = s.message

\* the offsets in the stream at which a frame of the peer ends
FrameEnds == {EndOf(i) : i \in 1..Len(sent)}

----------------------------------------------------------------------------
(* StdIOSession.run, the write path: a message is taken off the queue,      *)
(* framed and written to the process's stdin                                *)

\* validated_element(data, tags=hello) returns for a well-formed document
\* whose root is hello and raises XMLError for anything else
validated_hello(data) == parse_root_ok(data) /\ root_is_hello(data) /\ to_ele_ok(data)

\* start_delim = lambda data_len: '\n#%s\n' % data_len
start_delim(data_len) == <<"\n", "#">> \o Dec(data_len) \o <<"\n">>

\* lines 85-111: the bytes written for data and the exception that leaves the
\* try statement (None when there is none); the finally clause writes data as
\* it is when an exception is on its way
write_frame(data, client, server) ==
    LET eom     == [bytes |-> data \o MSG_DELIM, framing |-> "eom", raised |-> None]
        chunked == [bytes |-> start_delim(Len(data)) \o data \o END_DELIM,
                    framing |-> "chunked", raised |-> None]
    IN IF validated_hello(data) THEN eom
       ELSE IF BASE_11 \in client
            THEN IF truthy(server)
                 THEN IF BASE_11 \in server THEN chunked
                      ELSE IF BASE_10 \in server THEN eom
                      ELSE [bytes |-> data, framing |-> "none",
                            raised |-> "No capabilities for writing data."]
                 ELSE [bytes |-> data, framing |-> "none", raised |-> "XMLError"]
            ELSE eom

\* the except of run with the HelloHandler among the listeners: close(), then
\* errback(err) on every listener, and the loop is over
worker_except(st, err) ==
    /\ connected' = FALSE
    /\ errors' = dispatch_error_all(errors, listeners, err)
    /\ running' = FALSE
    /\ HelloStored(IF HELLO \in listeners THEN hello_errback(st, err) ELSE st)

\* one pass of the loop in which select reports the channel readable and
\* read() returns the k bytes up to the end of a frame
WorkerRead(k) ==
    /\ running
    /\ k \in 1..Len(wire)
    /\ fed + k \in FrameEnds
    /\ wire' = From(wire, k + 1)
    /\ fed' = fed + k
    /\ reads' = IF reads < ReadsCounted THEN reads + 1 ELSE reads
    /\ last_read' = [parser |-> read_parser(client_capabilities, server_capabilities),
                     client |-> client_capabilities, server |-> server_capabilities]
    /\ LET r  == Parsed(k)
           st == IF HELLO \in listeners THEN hello_dispatch(HelloState, r.out)
                 ELSE HelloState
       IN /\ SelfStored(r.self)
          /\ parsing_state' = r.parsing_state
          /\ dispatched' = dispatched \o r.out
          /\ received' = dispatch_all(received, listeners, r.out)
          /\ IF r.raised
             THEN worker_except(st, IF r.which = "raise"
                                    THEN "No capabilities for reading data."
                                    ELSE "Exception")
             ELSE /\ HelloStored(st)
                  /\ UNCHANGED << connected, errors, running >>
    /\ UNCHANGED << listeners, lock, q, client_capabilities, sent, app, wrk, gone,
                    at_snapshot, send_result, peer_closed, written >>

\* one pass of the loop in which select reports the closed channel readable
\* and read() returns '': if data: is false and nothing is done
WorkerReadEOF ==
    /\ running
    /\ peer_closed
    /\ wire = <<>>
    /\ last_read' = [parser |-> "none", client |-> client_capabilities,
                     server |-> server_capabilities]
    /\ UNCHANGED << listeners, lock, q, client_capabilities, server_capabilities, id,
                    connected, buffer, parsing_state10, parsing_state, parsing_pos10,
                    parsing_pos11, parsing_state11, expchunksize, curchunksize,
                    inendpos, message, wire, fed, reads, sent, running, dispatched,
                    received, errors, app, wrk, gone, at_snapshot, send_result,
                    post_connect, peer_closed, written >>

\* one pass of the loop in which the queue is not empty
WorkerWrite ==
    /\ running
    /\ q # <<>>
    /\ q' = Tail(q)
    /\ LET f == write_frame(Head(q), client_capabilities, server_capabilities)
       IN /\ written' = Append(written, f.bytes)
          /\ IF f.raised # None
             THEN worker_except(HelloState, f.raised)
             ELSE UNCHANGED << connected, errors, running, id, server_capabilities,
                               post_connect >>
    /\ UNCHANGED << listeners, lock, client_capabilities, buffer, parsing_state10,
                    parsing_state, parsing_pos10, parsing_pos11, parsing_state11,
                    expchunksize, curchunksize, inendpos, message, wire, fed, reads,
                    sent, dispatched, received, app, wrk, gone, at_snapshot,
                    send_result, peer_closed, last_read >>

\* the peer closes its end of the channel
PeerClose ==
    /\ ~peer_closed
    /\ peer_closed' = TRUE
    /\ UNCHANGED << listeners, lock, q, client_capabilities, server_capabilities, id,
                    connected, buffer, parsing_state10, parsing_state, parsing_pos10,
                    parsing_pos11, parsing_state11, expchunksize, curchunksize,
                    inendpos, message, wire, fed, reads, sent, running, dispatched,
                    received, errors, app, wrk, gone, at_snapshot, send_result,
                    post_connect, written, last_read >>

----------------------------------------------------------------------------
(* Session._post_connect, one step per line *)

\* HelloHandler.build(self._client_capabilities), as to_xml writes it
ClientHello == <<"<", "h", ">">>

HandshakeUnchanged ==
    UNCHANGED << lock, client_capabilities, server_capabilities, id, connected,
                 buffer, parsing_state10, parsing_state, parsing_pos10, parsing_pos11,
                 parsing_state11, expchunksize, curchunksize, inendpos, message,
                 wire, fed, reads, sent, dispatched, received, errors, app, wrk,
                 gone, at_snapshot, send_result, peer_closed, written, last_read >>

\* connect (stdio.py line 57) calls _post_connect: lines 70-80
PostConnectCall ==
    /\ post_connect.pc = "none"
    /\ post_connect' = [pc |-> "add_listener", init_event |-> FALSE, error |-> None]
    /\ UNCHANGED << listeners, q, running >>
    /\ HandshakeUnchanged

\* line 81: self.add_listener(listener)
PostAddListener ==
    /\ post_connect.pc = "add_listener"
    /\ listeners' = listeners \cup {HELLO}
    /\ post_connect' = [post_connect EXCEPT !.pc = "send"]
    /\ UNCHANGED << q, running >>
    /\ HandshakeUnchanged

\* line 82: self.send(HelloHandler.build(self._client_capabilities))
PostSend ==
    /\ post_connect.pc = "send"
    /\ IF send_refused(connected)
       THEN /\ post_connect' = [post_connect EXCEPT !.pc = "raised"]
            /\ q' = q
       ELSE /\ post_connect' = [post_connect EXCEPT !.pc = "start"]
            /\ q' = Append(q, ClientHello)
    /\ UNCHANGED << listeners, running >>
    /\ HandshakeUnchanged

\* line 84: self.start()
PostStart ==
    /\ post_connect.pc = "start"
    /\ running' = TRUE
    /\ post_connect' = [post_connect EXCEPT !.pc = "wait"]
    /\ UNCHANGED << listeners, q >>
    /\ HandshakeUnchanged

\* line 86: init_event.wait() returns once the event is set
PostWait ==
    /\ post_connect.pc = "wait"
    /\ post_connect.init_event
    /\ post_connect' = [post_connect EXCEPT !.pc = "remove_listener"]
    /\ UNCHANGED << listeners, q, running >>
    /\ HandshakeUnchanged

\* line 88: self.remove_listener(listener)
PostRemoveListener ==
    /\ post_connect.pc = "remove_listener"
    /\ listeners' = listeners \ {HELLO}
    /\ post_connect' = [post_connect EXCEPT !.pc = "check"]
    /\ UNCHANGED << q, running >>
    /\ HandshakeUnchanged

\* lines 89-94: if error[0]: raise error[0], else the call returns
PostFinish ==
    /\ post_connect.pc = "check"
    /\ post_connect' = [post_connect EXCEPT
                           !.pc = IF post_connect.error # None THEN "raised"
                                  ELSE "returned"]
    /\ UNCHANGED << listeners, q, running >>
    /\ HandshakeUnchanged

\* client capability sets an application may give the session
ClientCaps == {{BASE_10}, {BASE_11}, {BASE_10, BASE_11}, {CAP_OTHER}}

\* what the peer may send first: a hello with a session-id and capabilities, a
\* bare hello, a hello cut short, a hello that lost its first byte, a reply
FirstTexts ==
    {<<"<", "h", "s", "0", ">">>, <<"<", "h", "s", "1", ">">>,
     <<"<", "h", "s", "0", "1", ">">>, <<"<", "h", "s", "c", ">">>,
     <<"<", "h", ">">>, <<"<", "h", "s", "0">>, <<"h", "s", "0", ">">>,
     <<"<", "r", ">">>}

\* what the peer may send next: a reply in either framing, or a second hello
NextFrames ==
    {Frame10(<<"<", "r", ">">>), Frame11(<< <<"<", "r", ">">> >>),
     Frame10(<<"<", "h", "s", "0", "1", ">">>)}

PeerHandshake ==
    \/ sent = <<>>
    \/ \E m \in FirstTexts : sent = <<Frame10(m)>>
    \/ \E m \in FirstTexts, f \in NextFrames : sent = <<Frame10(m), f>>

\* connect has set _connected (stdio.py line 55) and is about to call
\* _post_connect; the worker has not been started
InitHandshake ==
    /\ \E lst \in {{}, {"l1"}}, client \in ClientCaps :
          Constructed(lst, client, NoCapabilities, TRUE)
    /\ PeerHandshake
    /\ wire = Stream
    /\ fed = 0
    /\ reads = 0
    /\ running = FALSE

NextHandshake ==
    \/ PostConnectCall
    \/ PostAddListener
    \/ PostSend
    \/ PostStart
    \/ PostWait
    \/ PostRemoveListener
    \/ PostFinish
    \/ \E k \in 1..Len(wire) : WorkerRead(k)
    \/ WorkerReadEOF
    \/ WorkerWrite
    \/ PeerClose

\* the handshake and the worker loop that serves it
SpecHandshake == InitHandshake /\ [][NextHandshake]_vars

----------------------------------------------------------------------------
(* Claims about the handshake *)

\* C12: the client hello is on the queue before the worker is started; the
\* initiator gets past its wait only once the event is set; when _post_connect
\* has returned or raised, the HelloHandler is out of the registry; it returns
\* only with no error captured and with id and server capabilities as parsed
\* from a hello that was dispatched, and raises the captured error otherwise;
\* and id and server capabilities are unset as long as no well-formed hello
\* has been dispatched.
C12_HandshakePostcondition ==
    /\ post_connect.pc \in {"none", "add_listener", "send", "start"}
          => (~running /\ written = <<>>)
    /\ post_connect.pc = "start" => q = <<ClientHello>>
    /\ post_connect.pc \in {"remove_listener", "check", "returned", "raised"}
          => post_connect.init_event
    /\ post_connect.pc \in {"returned", "raised"} => HELLO \notin listeners
    /\ post_connect.pc = "returned"
          => /\ post_connect.error = None
             /\ \E i \in 1..Len(dispatched) :
                   /\ validated_hello(dispatched[i])
                   /\ id = HelloHandler_parse(dispatched[i]).sid
                   /\ server_capabilities = HelloHandler_parse(dispatched[i]).capabilities
    /\ post_connect.pc = "raised" => post_connect.error # None
    /\ (id # None \/ server_capabilities # NoCapabilities)
          => \E i \in 1..Len(dispatched) : validated_hello(dispatched[i])

\* _post_connect has returned with the session-id and both base capabilities
\* of the peer's hello
C12_Witness ==
    /\ post_connect.pc = "returned"
    /\ id = "s"
    /\ server_capabilities = {BASE_10, BASE_11}
    /\ HELLO \notin listeners

\* a text that is a well-formed document
WellFormed(raw) == parse_root_ok(raw) /\ to_ele_ok(raw)

\* C13: once the peer's first message, its hello, has been handed to
\* _dispatch_message and is not a well-formed document, the failure has been
\* captured and the completion signalled, so that the initiator is not left
\* waiting and does not return normally.
C13_HandshakeFailureSurfaced ==
    (Len(dispatched) >= 1 /\ ~WellFormed(dispatched[1]))
        => /\ post_connect.init_event
           /\ post_connect.error # None
           /\ post_connect.pc # "returned"

\* the parser a read is to run once the hello has populated the server's
\* capabilities: chunked if both sides hold base:1.1, else EOM if either side
\* holds base:1.0, else an error; EOM before that
SelectedParser(client, server) ==
    IF server = NoCapabilities THEN "parse10"
    ELSE IF BASE_11 \in server /\ BASE_11 \in client THEN "parse11"
    ELSE IF BASE_10 \in server \/ BASE_10 \in client THEN "parse10"
    ELSE "raise"

\* C14: every read that returned data ran the EOM parser when the server's
\* capabilities had not been populated yet, and otherwise the chunked parser
\* exactly when both capability sets held base:1.1, else the EOM parser when
\* either held base:1.0, else it raised.
C14_ReadParserSelection ==
    last_read.parser \notin {None, "none"}
        => last_read.parser = SelectedParser(last_read.client, last_read.server)

\* a read after the hello ran the chunked parser, both sides holding base:1.1
C14_Witness ==
    /\ last_read.parser = "parse11"
    /\ last_read.server # NoCapabilities
    /\ BASE_11 \in last_read.client
    /\ Len(dispatched) >= 1

----------------------------------------------------------------------------
(* The write path on its own: a connected session after the handshake, or   *)
(* before the peer's hello has come, with messages on the queue             *)

MaxWritten == 2

\* an operation message the application sends
Rpc == <<"<", "r", ">">>

\* the capability sets either side may hold
CapSets == (SUBSET {BASE_10, BASE_11, CAP_OTHER}) \ {{}}

\* a connected session whose worker runs, before the peer's hello or after it
InitWrite ==
    /\ \E client \in CapSets, server \in CapSets \cup {NoCapabilities} :
          Constructed(Listeners, client, server, TRUE)
    /\ sent = <<>>
    /\ wire = <<>>
    /\ fed = 0
    /\ reads = 0
    /\ running = TRUE

\* the application sends up to MaxWritten messages and the worker writes them
NextWrite ==
    \/ \E m \in {ClientHello, Rpc} :
          /\ Len(written) + Len(q) < MaxWritten
          /\ SendCall(m)
    \/ SendPut
    \/ WorkerWrite

SpecWrite == InitWrite /\ [][NextWrite]_vars

----------------------------------------------------------------------------
(* Claims about the write path *)

\* the framing of a message by the rule of the read path: a hello in EOM
\* framing; any other message chunked if both sides hold base:1.1, else in EOM
\* framing if either side holds base:1.0, else not at all
SelectedFraming(data, client, server) ==
    IF validated_hello(data) THEN "eom"
    ELSE IF BASE_11 \in server /\ BASE_11 \in client THEN "chunked"
    ELSE IF BASE_10 \in server \/ BASE_10 \in client THEN "eom"
    ELSE "error"

\* C15: whenever the worker takes a message off the queue, the server's
\* capabilities being known or the message a hello, it writes the message in
\* the framing the rule selects and goes on, or, where the rule selects none,
\* stops with an error.
C15_WriteFramingSelection ==
    [][ (Len(written') > Len(written)
         /\ (server_capabilities # NoCapabilities \/ validated_hello(Head(q))))
        => LET data == Head(q)
               want == SelectedFraming(data, client_capabilities, server_capabilities)
               last == written'[Len(written')]
           IN /\ want = "eom" => (running' /\ last = data \o MSG_DELIM)
              /\ want = "chunked" => (running' /\ last = Chunk11(data) \o END_DELIM)
              /\ want = "error" => ~running'
      ]_vars

----------------------------------------------------------------------------
(* Claims about the end of the channel *)

\* C16: once a read on the closed channel has returned end-of-stream, the
\* worker has stopped, the session is marked disconnected, every registered
\* listener has been given an error and an initiator still in its wait has
\* been signalled.
C16_ShutdownOnClose ==
    last_read.parser = "none"
        => /\ ~running
           /\ ~connected
           /\ \A l \in listeners \cap Listeners : errors[l] # <<>>
           /\ post_connect.pc = "wait" => post_connect.init_event

----------------------------------------------------------------------------
(* The EOM parser on arbitrary bytes: the buffer holds any string of         *)
(* brackets, '>' and letters when _parse10 is called once                    *)

MaxBytes10 == 8

ByteStrings10 == UNION {[1..k -> {"]", ">", "a"}] : k \in 1..MaxBytes10}

InitEOMBytes ==
    /\ Constructed(Listeners, {BASE_10}, NoCapabilities, TRUE)
    /\ \E s \in ByteStrings10 : Peer(<<[msg |-> <<>>, chunks |-> <<>>, enc |-> s]>>)

\* any bytes, in the buffer for one call of _parse10
SpecEOMBytes == InitEOMBytes /\ [][NextReadAll]_vars

RECURSIVE SumLen(_)
SumLen(ss) == IF ss = <<>> THEN 0 ELSE Len(Head(ss)) + SumLen(Tail(ss))

\* C17: after _parse10 has run on a buffer, nothing was raised; when the bytes
\* hold no complete ']]>]]>' nothing was dispatched and the buffer holds every
\* byte; and whatever was dispatched, the bytes removed from the buffer are
\* the dispatched messages and 6 delimiter bytes for each.
C17_FullDelimiterOnly ==
    (reads = 1 /\ wire = <<>>)
        => /\ running
           /\ (\A i \in 1..Len(Stream) : ~DelimAt(Stream, i))
                 => (dispatched = <<>> /\ buffer.data = Stream)
           /\ Len(Stream) - Len(buffer.data)
                 = SumLen(dispatched) + Len(dispatched) * Len(MSG_DELIM)

\* C18: after _parse10 has run on a buffer that holds a complete ']]>]]>',
\* wherever it starts (also at a byte that broke off a partial match), a
\* message was dispatched.
C18_InterruptingByteRechecked ==
    (reads = 1 /\ wire = <<>> /\ \E i \in 1..Len(Stream) : DelimAt(Stream, i))
        => dispatched # <<>>

----------------------------------------------------------------------------
(* A chunk on its own: a header whose length field is 0, 1 or 2 and the      *)
(* bytes that follow it, read in any fragments                               *)

MaxBodyLen == 2
MaxAfter == 4

AfterBytes == UNION {[1..k -> {"<", "\n", "#"}] : k \in 1..MaxAfter}

\* the peer has written a chunk header and some bytes after it
PeerChunk ==
    \E len \in 0..MaxBodyLen : \E after \in AfterBytes :
        Peer(<<[msg |-> <<>>, chunks |-> <<>>, enc |-> Header11(Dec(len)) \o after]>>)

InitChunkBody ==
    /\ Constructed(Listeners, {BASE_10, BASE_11}, {BASE_10, BASE_11}, TRUE)
    /\ PeerChunk

SpecChunkBody == InitChunkBody /\ [][NextRead]_vars

\* C20: in every state the bytes consumed in the current chunk are no more
\* than the chunk length its header gave (0 included), and when the parser
\* has gone on to expect the marker after the chunk they are exactly as many.
C20_ChunkBodyExact ==
    /\ curchunksize <= expchunksize
    /\ parsing_state11 \in {inbetween, inend} => curchunksize = expchunksize

----------------------------------------------------------------------------
(* Claims about send against the worker's close *)

\* C21: whatever the interleaving of send with the worker's close, a message
\* is put on the queue only while connected is true: the queue never grows
\* in a step that starts with connected false.
C21_NoPutAfterClose ==
    [][ Len(q') > Len(q) => connected ]_vars

=============================================================================
